---- MODULE Spec2Model ----
(***************************************************************************)
(* A model of src/src/bootinfo.rs: the fixed-capacity MemoryMap, the       *)
(* conversion of E820 descriptors to MemoryRegion values, and create_from  *)
(* with its overlap-normalization pass.                                    *)
(*                                                                         *)
(* Two programs are specified over the same state:                         *)
(*   SpecMap  a client (the loader) calling add_region / sort on a map     *)
(*            obtained from MemoryMap::new(), with any region argument;    *)
(*   Spec     one run of create_from over a list of raw descriptors.       *)
(*                                                                         *)
(* Indices are 0-based as in the source: entries is a function on          *)
(* 0..Capacity-1.  Frames are natural numbers (PhysFrame numbers).         *)
(***************************************************************************)
EXTENDS Integers, FiniteSets, Sequences, Bags, TLC

(***************************************************************************)
(* Bounds.  Capacity stands for the array length 32 of line 37, FrameSize  *)
(* for the 4 KiB frame size and U64Modulus for 2^64; they are scaled down  *)
(* so that the state space is finite and small.                            *)
(***************************************************************************)
Capacity == 3

FrameSize == 2

U64Modulus == 16

Slots == 0 .. (Capacity - 1)

(***************************************************************************)
(* MemoryRegionType (lines 131-162).                                       *)
(***************************************************************************)
MemoryRegionType ==
    { "Usable", "InUse", "Reserved", "AcpiReclaimable", "AcpiNvs", "BadMemory",
      "Kernel", "KernelStack", "PageTable", "Bootloader", "FrameZero", "Empty",
      "BootInfo", "Package" }

(* PhysFrame::range(start, end): a half-open range of frame numbers. *)
PhysFrameRange(s, e) == [start |-> s, end |-> e]

(* MemoryRegion (lines 112-115). *)
MemoryRegion(s, e, t) == [range |-> PhysFrameRange(s, e), region_type |-> t]

(* MemoryRegion::empty() (lines 118-126): frame 0 .. frame 0, type Empty. *)
empty == MemoryRegion(0, 0, "Empty")

(* PhysFrameRange::is_empty, as used at lines 61, 63 and 80. *)
is_empty(range) == ~(range.start < range.end)

(* Ord::cmp on frame numbers (lines 67-74). *)
cmp(a, b) == IF a < b THEN "Less" ELSE IF a = b THEN "Equal" ELSE "Greater"

(* compare without the tie-break on range.end: orders by start only. *)
compare_start_only(r1, r2) ==
    IF is_empty(r1.range) THEN "Greater"
    ELSE IF is_empty(r2.range) THEN "Less"
    ELSE cmp(r1.range.start, r2.range.start)

(* compare without the two emptiness tests: the sentinel sorts by frame 0. *)
compare_ignoring_empty(r1, r2) ==
    LET ordering == cmp(r1.range.start, r2.range.start)
    IN  IF ordering = "Equal"
        THEN cmp(r1.range.end, r2.range.end)
        ELSE ordering

(* The closure handed to sort_unstable_by (lines 60-79). *)
compare(r1, r2) ==
    IF is_empty(r1.range) THEN "Greater"
    ELSE IF is_empty(r2.range) THEN "Less"
    ELSE LET ordering == cmp(r1.range.start, r2.range.start)
         IN  IF ordering = "Equal"
             THEN cmp(r1.range.end, r2.range.end)
             ELSE ordering

(***************************************************************************)
(* slice::sort_unstable_by (line 60).  The library sorts with              *)
(* is_less(a, b) == (compare(a, b) = Less), which for this closure is a    *)
(* strict weak order (empty ranges are mutually unordered and follow every *)
(* non-empty range).  The sort is unstable: elements that are not ordered  *)
(* by is_less may come out in any relative order, so the result is any     *)
(* permutation of the array in which no later element is less than an      *)
(* earlier one.                                                            *)
(***************************************************************************)
is_sorted_by(es) ==
    \A i \in Slots : \A j \in (i + 1) .. (Capacity - 1) :
        compare(es[j], es[i]) # "Less"

SlotPermutations == Permutations(Slots)

sort_unstable_by(es) ==
    { ps \in { [i \in Slots |-> es[p[i]]] : p \in SlotPermutations } :
        is_sorted_by(ps) }

(* entries.iter().position(|r| r.range.is_empty()) (line 80): the set is  *)
(* empty for None, else the answer is its least element.                   *)
empty_positions(es) == { i \in Slots : is_empty(es[i].range) }

position_first_empty(es) ==
    CHOOSE i \in empty_positions(es) : \A j \in empty_positions(es) : i <= j

(* An identity "sort": leaves the array as it is and recomputes the cursor. *)
sort_not_sorting(m) ==
    { [entries |-> m.entries,
       next_entry_index |->
           IF empty_positions(m.entries) = {} THEN m.next_entry_index
           ELSE position_first_empty(m.entries)] }

(* MemoryMap::sort (lines 57-83), on a map value m; the set of results. *)
sort(m) ==
    { [entries |-> es,
       next_entry_index |->
           IF empty_positions(es) = {} THEN m.next_entry_index
           ELSE position_first_empty(es)] :
      es \in sort_unstable_by(m.entries) }

(* MemoryMap::new (lines 44-49). *)
new == [entries |-> [i \in Slots |-> empty], next_entry_index |-> 0]

(* The index expression of line 52 panics (bounds check) outside the array. *)
index_in_bounds(m) == m.next_entry_index \in Slots

(* add_region that wraps the cursor instead of failing when the map is full. *)
add_region_wrapping(m, region) ==
    LET at == m.next_entry_index % Capacity
    IN  sort([entries |-> [m.entries EXCEPT ![at] = region],
              next_entry_index |-> at + 1])

(* add_region that forgets to advance the cursor before sorting. *)
add_region_not_advancing(m, region) ==
    IF index_in_bounds(m)
    THEN sort([entries |-> [m.entries EXCEPT ![m.next_entry_index] = region],
               next_entry_index |-> m.next_entry_index])
    ELSE {}

(* MemoryMap::add_region (lines 51-55) when the index is in bounds: the    *)
(* set of resulting maps.  Out of bounds the call panics at line 52 before *)
(* anything is written: the empty set of results.                          *)
add_region(m, region) ==
    IF index_in_bounds(m)
    THEN sort([entries |-> [m.entries EXCEPT ![m.next_entry_index] = region],
               next_entry_index |-> m.next_entry_index + 1])
    ELSE {}

(* Deref for MemoryMap (lines 90-96): the exposed slice, as a sequence. *)
deref(m) == [k \in 1 .. m.next_entry_index |-> m.entries[k - 1]]

(***************************************************************************)
(* E820MemoryRegion (lines 166-171).  acpi_extended_attributes is read by  *)
(* no code and is left out.  RegionTypeCodes is the match of lines 176-180.*)
(***************************************************************************)
E820MemoryRegion(a, l, t) == [start_addr |-> a, len |-> l, region_type |-> t]

(* The match with the arms of codes 3 and 4 exchanged. *)
RegionTypeCodes_3_4_exchanged ==
    [c \in 1 .. 5 |->
        CASE c = 1 -> "Usable"
          [] c = 2 -> "Reserved"
          [] c = 3 -> "AcpiNvs"
          [] c = 4 -> "AcpiReclaimable"
          [] c = 5 -> "BadMemory"]

RegionTypeCodes ==
    [c \in 1 .. 5 |->
        CASE c = 1 -> "Usable"
          [] c = 2 -> "Reserved"
          [] c = 3 -> "AcpiReclaimable"
          [] c = 4 -> "AcpiNvs"
          [] c = 5 -> "BadMemory"]

(* PhysFrame::containing_address (lines 185-186): the frame number of addr. *)
containing_address(addr) == addr \div FrameSize

(* The panics of the program, by the message or the check that raises them. *)
NoPanic == "none"

InvalidRegionType == "invalid region type"

NonUsableOverlap == "two non-usable regions overlap"

IndexOutOfBounds == "index out of bounds"

AddWithOverflow == "attempt to add with overflow"

(* A conversion that takes every unknown type code for Reserved. *)
from_defaulting(region, checks) ==
    [panic |-> NoPanic,
     region |-> MemoryRegion(
         containing_address(region.start_addr),
         containing_address((region.start_addr + region.len) % U64Modulus),
         IF region.region_type \in DOMAIN RegionTypeCodes
         THEN RegionTypeCodes[region.region_type] ELSE "Reserved")]

(***************************************************************************)
(* impl From<E820MemoryRegion> for MemoryRegion (lines 173-191).  The type *)
(* code is matched first (line 181 panics on any other code).  The sum of  *)
(* line 186 is a u64 addition: with overflow checks compiled in (checks)   *)
(* it panics on overflow, without them it wraps.  PhysAddr::new is taken   *)
(* to accept every address it is given here.                               *)
(***************************************************************************)
from(region, checks) ==
    IF region.region_type \notin DOMAIN RegionTypeCodes
    THEN [panic |-> InvalidRegionType, region |-> empty]
    ELSE IF checks /\ region.start_addr + region.len >= U64Modulus
    THEN [panic |-> AddWithOverflow, region |-> empty]
    ELSE [panic |-> NoPanic,
          region |-> MemoryRegion(
              containing_address(region.start_addr),
              containing_address((region.start_addr + region.len) % U64Modulus),
              RegionTypeCodes[region.region_type])]

(***************************************************************************)
(* State.                                                                  *)
(*   entries, next_entry_index   the MemoryMap under construction          *)
(*   pc, fatal                   where the program is and the panic raised *)
(*   entry_count, index          create_from's argument and the number of  *)
(*                               descriptors the loop of line 199 has taken*)
(*   iter                        index of the element the peekable         *)
(*                               iterator of line 205 yields next          *)
(*   overflow_checks             whether the build checks u64 overflow     *)
(*   raw, inserted               history: the descriptors read so far and  *)
(*                               the regions passed to add_region (bags)   *)
(*   before_pass                 history: the map as the sort of line 203  *)
(*                               left it                                   *)
(***************************************************************************)
VARIABLES entries, next_entry_index, pc, fatal, entry_count, index, iter,
          overflow_checks, raw, inserted, before_pass

vars == << entries, next_entry_index, pc, fatal, entry_count, index, iter,
           overflow_checks, raw, inserted, before_pass >>

map == [entries |-> entries, next_entry_index |-> next_entry_index]

(***************************************************************************)
(* Inputs of SpecMap: the regions a caller passes to add_region.  Besides  *)
(* ordinary regions (equal starts, equal ranges of different types) a      *)
(* caller can build a zero-length range that is not the sentinel, and a    *)
(* range whose end lies below its start.                                   *)
(***************************************************************************)
ApiRegionTypes == { "Usable", "Kernel" }

NonEmptyRanges ==
    { PhysFrameRange(0, 1), PhysFrameRange(0, 2), PhysFrameRange(1, 2) }

EmptyRanges ==
    { PhysFrameRange(0, 0), PhysFrameRange(1, 1), PhysFrameRange(2, 1) }

ApiRegions ==
    { [range |-> r, region_type |-> t] : r \in NonEmptyRanges, t \in ApiRegionTypes }
    \cup { [range |-> r, region_type |-> "Usable"] : r \in EmptyRanges }
    \cup { empty }

(* The number of add_region calls a run of SpecMap makes: one more than    *)
(* the map holds.                                                          *)
MaxCalls == Capacity + 1

(***************************************************************************)
(* Inputs of Spec: the raw descriptors.  create_from is given at most      *)
(* Capacity descriptors.  The descriptors are frame-aligned ranges of one  *)
(* or two frames of a usable and two non-usable types, one of each other   *)
(* type code of the match, two unaligned ones, one of length 0, one whose  *)
(* start_addr + len exceeds the u64 range, and one for each of two unknown *)
(* type codes.                                                             *)
(***************************************************************************)
MaxEntryCount == Capacity

StartAddrs == { 0, FrameSize, 2 * FrameSize }

Lens == { FrameSize, 2 * FrameSize }

TypeCodes == { 1, 2, 4 }

AlignedDescriptors ==
    { E820MemoryRegion(a, l, t) : a \in StartAddrs, l \in Lens, t \in TypeCodes }
    \cup { E820MemoryRegion(FrameSize, FrameSize, 3),
           E820MemoryRegion(0, 2 * FrameSize, 5) }

OddDescriptors ==
    { E820MemoryRegion(FrameSize + 1, FrameSize, 1),
      E820MemoryRegion(FrameSize, 0, 2),
      E820MemoryRegion(1, FrameSize - 1, 1),
      E820MemoryRegion(2 * FrameSize, U64Modulus - 3, 2) }

UnknownDescriptors ==
    { E820MemoryRegion(0, FrameSize, 0), E820MemoryRegion(FrameSize, FrameSize, 6) }

Descriptors == AlignedDescriptors \cup OddDescriptors \cup UnknownDescriptors

(***************************************************************************)
(* SpecMap: a client of the MemoryMap API.                                 *)
(***************************************************************************)
InitMap ==
    /\ entries = new.entries
    /\ next_entry_index = new.next_entry_index
    /\ pc = "api"
    /\ fatal = NoPanic
    /\ entry_count = 0
    /\ index = 0
    /\ iter = 0
    /\ overflow_checks = FALSE
    /\ raw = EmptyBag
    /\ inserted = EmptyBag
    /\ before_pass = new

(* A call of add_region(region) (lines 51-55). *)
AddRegion ==
    /\ pc = "api"
    /\ BagCardinality(inserted) < MaxCalls
    /\ \E region \in ApiRegions :
         /\ inserted' = inserted (+) SetToBag({region})
         /\ IF add_region(map, region) = {}
            THEN /\ pc' = "halted"
                 /\ fatal' = IndexOutOfBounds
                 /\ UNCHANGED << entries, next_entry_index >>
            ELSE /\ \E m \in add_region(map, region) :
                      /\ entries' = m.entries
                      /\ next_entry_index' = m.next_entry_index
                 /\ UNCHANGED << pc, fatal >>
    /\ UNCHANGED << entry_count, index, iter, overflow_checks, raw, before_pass >>

(* A call of the public sort() (lines 57-83). *)
Sort ==
    /\ pc = "api"
    /\ \E m \in sort(map) :
         /\ entries' = m.entries
         /\ next_entry_index' = m.next_entry_index
    /\ UNCHANGED << pc, fatal, entry_count, index, iter, overflow_checks, raw,
                    inserted, before_pass >>

NextMap == AddRegion \/ Sort

SpecMap == InitMap /\ [][NextMap]_vars

(***************************************************************************)
(* Spec: one run of create_from (lines 193-219).  The descriptor array is  *)
(* memory the caller owns; the loop of line 199 reads it one element at a  *)
(* time, so each descriptor is drawn when the loop takes it.               *)
(***************************************************************************)
Init ==
    /\ entries = new.entries
    /\ next_entry_index = new.next_entry_index
    /\ pc = "ingest"
    /\ fatal = NoPanic
    /\ entry_count \in 0 .. MaxEntryCount
    /\ index = 0
    /\ iter = 0
    /\ overflow_checks \in BOOLEAN
    /\ raw = EmptyBag
    /\ inserted = EmptyBag
    /\ before_pass = new

(* One iteration of the loop of lines 199-201: convert, then add_region. *)
Ingest ==
    /\ pc = "ingest"
    /\ index < entry_count
    /\ \E region \in Descriptors :
         LET converted == from(region, overflow_checks)
         IN  /\ raw' = raw (+) SetToBag({region})
             /\ IF converted.panic # NoPanic
                THEN /\ pc' = "halted"
                     /\ fatal' = converted.panic
                     /\ UNCHANGED << entries, next_entry_index, index, inserted >>
                ELSE /\ inserted' = inserted (+) SetToBag({converted.region})
                     /\ IF add_region(map, converted.region) = {}
                        THEN /\ pc' = "halted"
                             /\ fatal' = IndexOutOfBounds
                             /\ UNCHANGED << entries, next_entry_index, index >>
                        ELSE /\ \E m \in add_region(map, converted.region) :
                                  /\ entries' = m.entries
                                  /\ next_entry_index' = m.next_entry_index
                             /\ index' = index + 1
                             /\ UNCHANGED << pc, fatal >>
    /\ UNCHANGED << entry_count, iter, overflow_checks, before_pass >>

(* The loop is over; line 203 sorts and line 205 makes the iterator. *)
SortAll ==
    /\ pc = "ingest"
    /\ index = entry_count
    /\ \E m \in sort(map) :
         /\ entries' = m.entries
         /\ next_entry_index' = m.next_entry_index
         /\ before_pass' = m
    /\ iter' = 0
    /\ pc' = "normalize"
    /\ UNCHANGED << fatal, entry_count, index, overflow_checks, raw, inserted >>

(* A test that compares this region's end with the next region's end. *)
overlaps_next_end(es, i) == es[i].range.end > es[i + 1].range.end

(* The test of line 208 on the element the iterator yields and the one it  *)
(* peeks: elements iter and iter + 1 of the live slice.                    *)
overlaps_next(es, i) == es[i].range.end > es[i + 1].range.start

(* The assignment of line 210 taking the next region's end. *)
truncate_to_next_end(es, i) == [es EXCEPT ![i].range.end = es[i + 1].range.end]

(* The assignment of line 210 moved to the wrong side: the next region's   *)
(* start is set to this region's end.                                      *)
truncate_next_start(es, i) ==
    [es EXCEPT ![i + 1].range.start = es[i].range.end]

(* The assignment of line 210: region.range.end = next.range.start. *)
truncate(es, i) == [es EXCEPT ![i].range.end = es[i + 1].range.start]

(* A test that lets every region but the sentinel type be truncated. *)
is_usable_or_any(region) == region.region_type # "Empty"

(* The test of line 209. *)
is_usable(region) == region.region_type = "Usable"

(* One iteration of the while-let of lines 206-216. *)
Normalize ==
    /\ pc = "normalize"
    /\ iter < next_entry_index
    /\ IF iter + 1 < next_entry_index /\ overlaps_next(entries, iter)
       THEN IF is_usable(entries[iter])
            THEN /\ entries' = truncate(entries, iter)
                 /\ iter' = iter + 1
                 /\ UNCHANGED << pc, fatal >>
            ELSE /\ pc' = "halted"
                 /\ fatal' = NonUsableOverlap
                 /\ UNCHANGED << entries, iter >>
       ELSE /\ iter' = iter + 1
            /\ UNCHANGED << entries, pc, fatal >>
    /\ UNCHANGED << next_entry_index, entry_count, index, overflow_checks, raw,
                    inserted, before_pass >>

(* iter.next() is None: line 218 returns the map. *)
Return ==
    /\ pc = "normalize"
    /\ iter >= next_entry_index
    /\ pc' = "returned"
    /\ UNCHANGED << entries, next_entry_index, fatal, entry_count, index, iter,
                    overflow_checks, raw, inserted, before_pass >>

Next == Ingest \/ SortAll \/ Normalize \/ Return

Spec == Init /\ [][Next]_vars

(***************************************************************************)
(* Vocabulary of the properties.                                           *)
(***************************************************************************)
live == deref(map)

frames_of(region) ==
    { f \in 0 .. U64Modulus : region.range.start <= f /\ f < region.range.end }

share_frame(r1, r2) == frames_of(r1) \cap frames_of(r2) # {}

non_usable(region) ==
    region.region_type \in { "Reserved", "AcpiReclaimable", "AcpiNvs", "BadMemory" }

finished == pc \in { "returned", "halted" }

(* The live slice as the sort of line 203 left it. *)
live_before == deref(before_pass)

(***************************************************************************)
(* C1.  When create_from returns, the exposed sequence [0, cursor) is      *)
(* ascending by range.start, every adjacent pair has                       *)
(* region.range.end <= next.range.start, and no two live regions share a   *)
(* frame; also when three or more regions overlapped one another.          *)
(***************************************************************************)
C1_SortedNonOverlapping ==
    pc = "returned" =>
        /\ \A k \in 1 .. (Len(live) - 1) :
             /\ live[k].range.start <= live[k + 1].range.start
             /\ live[k].range.end <= live[k + 1].range.start
        /\ \A j \in 1 .. Len(live) : \A k \in 1 .. Len(live) :
             j # k => ~share_frame(live[j], live[k])

(* create_from has returned a map of three regions that all shared a frame. *)
C1_Witness ==
    /\ pc = "returned"
    /\ Len(live) = 3
    /\ share_frame(live_before[1], live_before[2])
    /\ share_frame(live_before[2], live_before[3])
    /\ share_frame(live_before[1], live_before[3])

(***************************************************************************)
(* C2.  If two non-usable regions made from the raw descriptors, each with *)
(* a non-empty range, overlap in a frame, create_from returns no map: once *)
(* every descriptor has been converted and inserted, the run ends in the   *)
(* panic of line 212, wherever the two regions stand after sorting.        *)
(***************************************************************************)
non_usable_overlap_inserted ==
    \E r1 \in BagToSet(inserted) : \E r2 \in BagToSet(inserted) :
        /\ non_usable(r1) /\ non_usable(r2)
        /\ share_frame(r1, r2)
        /\ (r1 = r2 => CopiesIn(r1, inserted) >= 2)

(* C2: a run that has converted and inserted every descriptor, two of them *)
(* overlapping non-usable regions, has ended in the panic of line 212.     *)
C2_NonUsableOverlapIsFatal ==
    (finished /\ index = entry_count /\ non_usable_overlap_inserted)
        => (pc = "halted" /\ fatal = NonUsableOverlap)

(* The run halted on two overlapping non-usable regions that are not       *)
(* adjacent after sorting: a usable region stands between them.            *)
C2_Witness ==
    /\ pc = "halted"
    /\ fatal = NonUsableOverlap
    /\ Len(live_before) = 3
    /\ non_usable(live_before[1])
    /\ live_before[2].region_type = "Usable"
    /\ non_usable(live_before[3])
    /\ share_frame(live_before[1], live_before[3])

(***************************************************************************)
(* C3.  A call of add_region made when the cursor is already Capacity      *)
(* fails: it panics, writes no slot and leaves the cursor where it is; and *)
(* the cursor never leaves 0..Capacity.                                    *)
(***************************************************************************)
C3_FullMapRejectsInsert ==
    [][ /\ next_entry_index' \in 0 .. Capacity
        /\ (pc = "api" /\ next_entry_index = Capacity /\ inserted' # inserted)
             => /\ pc' = "halted"
                /\ fatal' = IndexOutOfBounds
                /\ entries' = entries
                /\ next_entry_index' = next_entry_index ]_vars

(* add_region was called on a full map. *)
C3_Witness ==
    /\ pc = "halted"
    /\ fatal = IndexOutOfBounds
    /\ next_entry_index = Capacity
    /\ BagCardinality(inserted) = Capacity + 1

(***************************************************************************)
(* C4.  After each sort the live prefix is ordered by (range.start,        *)
(* range.end).  The claim says strictly; the code keeps two regions of     *)
(* equal range side by side, so the order is ascending but not strict.     *)
(***************************************************************************)
key_less(r1, r2) ==
    \/ r1.range.start < r2.range.start
    \/ r1.range.start = r2.range.start /\ r1.range.end < r2.range.end

same_range(r1, r2) == r1.range = r2.range

(* C4 as stated: the live prefix is strictly ascending by (start, end). *)
C4_StrictlyOrdered ==
    \A k \in 1 .. (Len(live) - 1) : key_less(live[k], live[k + 1])

(* C4 as amended: the live prefix is ascending by (start, end), equal      *)
(* ranges allowed.                                                         *)
C4_Ordered ==
    \A k \in 1 .. (Len(live) - 1) :
        key_less(live[k], live[k + 1]) \/ same_range(live[k], live[k + 1])

(* A map holding regions of equal start and, next to each other, two of    *)
(* equal range.                                                            *)
C4_Witness ==
    /\ Len(live) = 3
    /\ \E k \in 1 .. 2 : same_range(live[k], live[k + 1])
    /\ \E k \in 1 .. 2 : key_less(live[k], live[k + 1])
                           /\ live[k].range.start = live[k + 1].range.start

(***************************************************************************)
(* C5.  Every slot at an index >= next_entry_index is unused.  The claim   *)
(* says it holds exactly the sentinel; the code leaves there any region of *)
(* empty range that add_region was given, so the slot holds an empty range *)
(* and is the sentinel unless such a region was inserted.                  *)
(***************************************************************************)
(* C5 as stated: every slot from the cursor on is the sentinel. *)
C5_TailIsSentinel ==
    \A i \in Slots : i >= next_entry_index => entries[i] = empty

(* C5 as amended: every slot from the cursor on has an empty range and is  *)
(* the sentinel or a region that was passed to add_region.                 *)
C5_TailIsEmptyRange ==
    \A i \in Slots : i >= next_entry_index =>
        /\ is_empty(entries[i].range)
        /\ entries[i] = empty \/ BagIn(entries[i], inserted)

(* A slot past the cursor holds an inserted region that is not the         *)
(* sentinel, next to live regions and to a sentinel.                       *)
C5_Witness ==
    /\ next_entry_index >= 1
    /\ \E i \in Slots : i >= next_entry_index /\ entries[i] # empty
    /\ \E i \in Slots : i >= next_entry_index /\ entries[i] = empty

(***************************************************************************)
(* C6.  In the returned map every usable region that overlapped its        *)
(* successor in the sorted sequence ends where that successor starts.      *)
(***************************************************************************)
C6_UsableTruncated ==
    pc = "returned" =>
        \A i \in Slots :
            ( /\ i + 1 < before_pass.next_entry_index
              /\ before_pass.entries[i].range.end
                   > before_pass.entries[i + 1].range.start
              /\ before_pass.entries[i].region_type = "Usable" )
            => /\ entries[i].range.end = before_pass.entries[i + 1].range.start
               /\ entries[i].range.start = before_pass.entries[i].range.start
               /\ entries[i].region_type = "Usable"

(* Usable [0,2) before Reserved [1,3) came back as Usable [0,1). *)
C6_Witness ==
    /\ pc = "returned"
    /\ Len(live) = 2
    /\ live_before[1] = MemoryRegion(0, 2, "Usable")
    /\ live_before[2] = MemoryRegion(1, 3, "Reserved")
    /\ live[1] = MemoryRegion(0, 1, "Usable")
    /\ live[2] = MemoryRegion(1, 3, "Reserved")

(***************************************************************************)
(* C7.  The normalization pass changes nothing but the range.end of Usable *)
(* regions: from the sort of line 203 on, every slot keeps its range.start *)
(* and region_type, every slot that is not Usable keeps all its fields,    *)
(* and the cursor stays.                                                   *)
(***************************************************************************)
C7_PassFrame ==
    pc \in { "normalize", "returned" } \/ fatal = NonUsableOverlap =>
        /\ next_entry_index = before_pass.next_entry_index
        /\ \A i \in Slots :
             /\ entries[i].range.start = before_pass.entries[i].range.start
             /\ entries[i].region_type = before_pass.entries[i].region_type
             /\ entries[i].region_type # "Usable"
                  => entries[i] = before_pass.entries[i]

(* The pass is over; it truncated a usable region that ran into a          *)
(* non-usable one.                                                         *)
C7_Witness ==
    /\ pc = "returned"
    /\ \E i \in Slots :
         /\ i + 1 < next_entry_index
         /\ entries[i] # before_pass.entries[i]
         /\ non_usable(entries[i + 1])

(***************************************************************************)
(* C8.  A descriptor whose type code is outside 1..5 makes create_from     *)
(* raise the panic of line 181.  The claim says that no add_region call    *)
(* has happened by then; the loop of lines 199-201 converts and inserts    *)
(* one descriptor at a time, so the descriptors that precede the unknown   *)
(* one have been inserted, and the unknown one and its successors have     *)
(* not.                                                                    *)
(***************************************************************************)
unknown_type_read ==
    \E d \in BagToSet(raw) : d.region_type \notin 1 .. 5

(* C8 as stated: an unknown type code halts the run with nothing inserted. *)
C8_NoInsertionBeforeUnknownType ==
    unknown_type_read =>
        /\ pc = "halted" /\ fatal = InvalidRegionType
        /\ BagCardinality(inserted) = 0

(* C8 as amended: an unknown type code halts the run with exactly the      *)
(* descriptors before it inserted.                                         *)
C8_UnknownTypeHaltsBeforeItsInsertion ==
    unknown_type_read =>
        /\ pc = "halted" /\ fatal = InvalidRegionType
        /\ BagCardinality(raw) = index + 1
        /\ BagCardinality(inserted) = index
        /\ \A r \in BagToSet(inserted) :
             \E d \in BagToSet(raw) :
                 /\ d.region_type \in 1 .. 5
                 /\ r = from(d, overflow_checks).region

(* The panic was raised by the third descriptor of the list. *)
C8_Witness ==
    /\ fatal = InvalidRegionType
    /\ index = 2
    /\ BagCardinality(inserted) = 2

(***************************************************************************)
(* C9.  For a list of frame-aligned descriptors (length > 0) that do not   *)
(* overlap and have type codes 1..5, in any order, create_from returns one *)
(* live region per descriptor, in ascending address order, with            *)
(* start = start_addr / frame size, end = (start_addr + len) / frame size  *)
(* and the type of the code; the normalization pass changes none.          *)
(***************************************************************************)
type_of_code ==
    << "Usable", "Reserved", "AcpiReclaimable", "AcpiNvs", "BadMemory" >>

expected_region(d) ==
    MemoryRegion(d.start_addr \div FrameSize,
                 (d.start_addr + d.len) \div FrameSize,
                 type_of_code[d.region_type])

addresses_overlap(d1, d2) ==
    d1.start_addr < d2.start_addr + d2.len /\ d2.start_addr < d1.start_addr + d1.len

well_formed_list ==
    /\ \A d \in BagToSet(raw) :
         /\ d.start_addr % FrameSize = 0
         /\ d.len % FrameSize = 0
         /\ d.len > 0
         /\ d.region_type \in 1 .. 5
         /\ CopiesIn(d, raw) = 1
    /\ \A d1 \in BagToSet(raw) : \A d2 \in BagToSet(raw) :
         d1 # d2 => ~addresses_overlap(d1, d2)

then_add(o, region) ==
    LET after == add_region(o.map, region)
    IN  IF o.halted \/ after = {}
        THEN { [halted |-> TRUE, map |-> o.map] }
        ELSE { [halted |-> FALSE, map |-> m] : m \in after }

RECURSIVE outcomes(_)
(* The outcomes of passing the regions of the bag B to add_region on       *)
(* new(), over every order of B: the last call passes some region e of B   *)
(* and the calls before it pass the rest of B in some order.               *)
outcomes(B) ==
    IF BagToSet(B) = {} THEN { [halted |-> FALSE, map |-> new] }
    ELSE UNION { UNION { then_add(o, e) : o \in outcomes(B (-) SetToBag({e})) } :
                 e \in BagToSet(B) }

same_in_every_order ==
    \A o \in outcomes(inserted) :
        /\ ~o.halted
        /\ deref(o.map) = live
        /\ o.map.next_entry_index = next_entry_index

no_equal_range_of_different_type ==
    \A r1 \in BagToSet(inserted) : \A r2 \in BagToSet(inserted) :
        (r1 # r2 /\ r1.range = r2.range) => is_empty(r1.range)

(* C10 as stated: any order of the inserted regions gives this live        *)
(* sequence and cursor.                                                    *)
C10_OrderIrrelevant ==
    (pc = "api" /\ BagCardinality(inserted) <= Capacity) => same_in_every_order

(* C10 as amended: the same, for collections without two regions of equal  *)
(* non-empty range and different types.                                    *)
C10_OrderIrrelevantWithoutTies ==
    ( /\ pc = "api"
      /\ BagCardinality(inserted) <= Capacity
      /\ no_equal_range_of_different_type )
    => same_in_every_order

(* A full map of three different ranges, two of them of equal start. *)
C10_Witness ==
    /\ pc = "api"
    /\ BagCardinality(inserted) = Capacity
    /\ next_entry_index = 3
    /\ no_equal_range_of_different_type
    /\ live[1].range.start = live[2].range.start
    /\ live[1].region_type # live[2].region_type

(***************************************************************************)
(* C11.  Overlap resolution is idempotent: the pass of lines 205-216 run   *)
(* again on the live slice a first successful pass produced changes no     *)
(* region and raises no panic.                                             *)
(***************************************************************************)
RECURSIVE normalization_pass(_, _, _)
(* The while-let of lines 205-216 as a whole, from element i of the live   *)
(* slice es[0 .. n-1] on: the panic it ends in, if any, and the entries it *)
(* leaves.                                                                 *)
normalization_pass(es, i, n) ==
    IF i >= n THEN [panic |-> NoPanic, entries |-> es]
    ELSE IF i + 1 < n /\ overlaps_next(es, i)
    THEN IF is_usable(es[i])
         THEN normalization_pass(truncate(es, i), i + 1, n)
         ELSE [panic |-> NonUsableOverlap, entries |-> es]
    ELSE normalization_pass(es, i + 1, n)

(* C11: the returned entries are what the pass makes of the sorted map,    *)
(* and the pass run on them again returns them unchanged, without a panic. *)
C11_PassIdempotent ==
    pc = "returned" =>
        /\ normalization_pass(before_pass.entries, 0, before_pass.next_entry_index)
             = [panic |-> NoPanic, entries |-> entries]
        /\ normalization_pass(entries, 0, next_entry_index)
             = [panic |-> NoPanic, entries |-> entries]

(* A first pass over three regions has truncated two of them. *)
C11_Witness ==
    /\ pc = "returned"
    /\ Len(live) = 3
    /\ entries[0] # before_pass.entries[0]
    /\ entries[1] # before_pass.entries[1]

(***************************************************************************)
(* C12.  Every region the conversion produced and every region stored in   *)
(* the map has range.end >= range.start, whatever start_addr and len the   *)
(* raw descriptors carry.                                                  *)
(***************************************************************************)
end_not_below_start(region) == region.range.end >= region.range.start

(* C12: no converted region and no slot of the map has its end below its   *)
(* start, before and after the normalization pass.                         *)
C12_EndNotBelowStart ==
    /\ \A region \in BagToSet(inserted) : end_not_below_start(region)
    /\ \A i \in Slots : end_not_below_start(entries[i])

(***************************************************************************)
(* C13.  The overlap panic of line 212 names two regions, `region` and     *)
(* `next`; the iteration stops at `region`, so they are entries[iter] and  *)
(* entries[iter + 1].                                                      *)
(***************************************************************************)
overlap_panic_raised == pc = "halted" /\ fatal = NonUsableOverlap

(* C13: whenever create_from halts with the overlap panic, neither of the  *)
(* two regions it names is Usable.                                         *)
C13_OverlapPanicNamesTwoNonUsable ==
    overlap_panic_raised =>
        /\ non_usable(entries[iter])
        /\ non_usable(entries[iter + 1])

(***************************************************************************)
(* C14.  The cursor after sort() and add_region(), on a map built from     *)
(* new() by add_region calls.                                              *)
(***************************************************************************)
first_empty_slot_or_capacity ==
    IF \E i \in Slots : is_empty(entries[i].range)
    THEN CHOOSE i \in Slots :
             /\ is_empty(entries[i].range)
             /\ \A j \in 0 .. i - 1 : ~is_empty(entries[j].range)
    ELSE Capacity

(* C14: the cursor is the index of the first slot with an empty range, or  *)
(* the capacity when no slot is empty; so every slot below it is non-empty *)
(* and the cursor lies in 0 .. Capacity.                                   *)
C14_CursorIsFirstEmptySlot ==
    /\ next_entry_index = first_empty_slot_or_capacity
    /\ \A i \in 0 .. next_entry_index - 1 : ~is_empty(entries[i].range)
    /\ next_entry_index \in 0 .. Capacity

(* A full map: no slot is empty and the cursor stands at the capacity. *)
C14_Witness ==
    /\ pc = "api"
    /\ \A i \in Slots : ~is_empty(entries[i].range)
    /\ next_entry_index = Capacity

(***************************************************************************)
(* C15.  add_region neither loses nor duplicates regions.                  *)
(***************************************************************************)
(* The elements of a sequence with their multiplicities. *)
bag_of(seq) ==
    [ e \in { seq[k] : k \in DOMAIN seq } |->
        Cardinality({ k \in DOMAIN seq : seq[k] = e }) ]

only_non_empty_inserted ==
    \A region \in BagToSet(inserted) : ~is_empty(region.range)

(* C15: after k calls of add_region that all succeeded, each with a        *)
(* non-empty range, the live slice holds exactly the k inserted regions,   *)
(* each as often as it was inserted, and the cursor is k.                  *)
C15_LiveIsPermutationOfInserted ==
    (pc = "api" /\ only_non_empty_inserted) =>
        /\ next_entry_index = BagCardinality(inserted)
        /\ bag_of(live) = inserted

(* The map was filled to capacity and one region was inserted twice. *)
C15_Witness ==
    /\ pc = "api"
    /\ only_non_empty_inserted
    /\ BagCardinality(inserted) = Capacity
    /\ \E region \in BagToSet(inserted) : CopiesIn(region, inserted) = 2

(***************************************************************************)
(* C16.  The live slice of the map create_from returns (line 218).         *)
(***************************************************************************)
(* C16: every live region of a returned map has range.start < range.end,   *)
(* and the cursor is still the index of the first empty-range slot (or the *)
(* capacity when there is none).                                           *)
C16_ReturnedLiveRegionsNonEmpty ==
    pc = "returned" =>
        /\ \A k \in DOMAIN live : live[k].range.start < live[k].range.end
        /\ next_entry_index = first_empty_slot_or_capacity

====
